---- MODULE Spec2Model ----
(***************************************************************************)
(* Model of assets/models/download_model.py: the interactive helper that   *)
(* prints download instructions and, when the prompt is answered with y,   *)
(* fetches the MediaPipe model with urllib.request.urlretrieve.            *)
(*                                                                         *)
(* Strings that the code inspects (the line typed at the prompt) are       *)
(* sequences of one-character strings.  The prompt is answered with a      *)
(* line; exhausted standard input and asynchronous interrupts are outside  *)
(* the model.  The destination file is its length in bytes, or Absent.     *)
(***************************************************************************)
EXTENDS Integers, Sequences, FiniteSets

\* ---------------------------------------------------------------- bounds
\* longest line typed at the prompt
MaxLen == 2
\* length of the remote model file, in MiB
RemoteMiB == 2

\* ------------------------------------------------------------- constants
MiB == 1024 * 1024

MODEL_SOURCES ==
  << [ name     |-> "FaceNet MobileNet (Recommended)",
       url      |-> "https://github.com/sirius-ai/MobileFaceNet_TF/raw/master/arch/pretrained_model/MobileFaceNet_9925_9680.ckpt.data-00000-of-00001",
       filename |-> "mobilefacenet_checkpoint.data",
       note     |-> "Needs conversion to TFLite" ],
     [ name     |-> "Alternative - Use pre-converted model",
       url      |-> "https://storage.googleapis.com/mediapipe-models/face_landmarker/face_landmarker/float16/latest/face_landmarker.task",
       filename |-> "face_landmarker.task",
       note     |-> "MediaPipe model" ] >>

\* Python list indexing is zero-based
Item(list, i) == list[i + 1]

\* the descriptor main() passes to download_model
SelectedSourceFirst == Item(MODEL_SOURCES, 0)

SelectedSource == Item(MODEL_SOURCES, 1)

\* ------------------------------------------------------------ the prompt
Alphabet == {"y", "Y", "n", " "}

Lines == UNION { [1..n -> Alphabet] : n \in 0..MaxLen }

lowerChar(c) ==
  CASE c = "Y" -> "y"
    [] c = "N" -> "n"
    [] OTHER   -> c

IsSpace(c) == c = " "

RECURSIVE lstrip(_)
lstrip(s) == IF s # <<>> /\ IsSpace(Head(s)) THEN lstrip(Tail(s)) ELSE s

RECURSIVE rstrip(_)
rstrip(s) ==
  IF s # <<>> /\ IsSpace(s[Len(s)]) THEN rstrip(SubSeq(s, 1, Len(s) - 1)) ELSE s

lowerStripped(s) == [i \in 1..Len(rstrip(lstrip(s))) |-> lowerChar(rstrip(lstrip(s))[i])]

\* str.lower()
lower(s) == [i \in 1..Len(s) |-> lowerChar(s[i])]

\* ----------------------------------------------------------- exceptions
\* what urlretrieve and os.path.getsize raise; all derive from Exception
Raised == {"URLError", "ContentTooShortError", "OSError"}

CatchesURLErrorOnly(e) == e = "URLError"

\* except Exception as e
Catches(e) == e \in Raised

\* ---------------------------------------------------------------- state
Absent == -1
NoSize == -1

VARIABLES
  pc,         \* the statement about to run
  typed,      \* the line entered at the prompt, as typed
  choice,     \* main's local: the lowered line
  url,        \* download_model's arguments
  filename,
  exc,        \* the exception in flight inside the try block, or "none"
  file_size,  \* download_model's local, in MiB; NoSize until assigned
  success,    \* main's local: "unset", "True" or "False"
  file,       \* length in bytes of face_landmarker.task on disk, or Absent
  calls,      \* the urlretrieve calls made, in order
  trace       \* everything printed, read and called, in order

vars == <<pc, typed, choice, url, filename, exc, file_size, success, file,
          calls, trace>>

Emit(e) == trace' = Append(trace, e)

Init ==
  /\ pc = "m41"
  /\ typed = <<>>
  /\ choice = <<>>
  /\ url = ""
  /\ filename = ""
  /\ exc = "none"
  /\ file_size = NoSize
  /\ success = "unset"
  /\ file \in {Absent} \cup {k * MiB : k \in 0..RemoteMiB}
  /\ calls = <<>>
  /\ trace = <<>>

\* ------------------------------------------------------------------ main
PrintBanner ==
  /\ pc = "m41"
  /\ Emit("banner")
  /\ pc' = "m45"
  /\ UNCHANGED <<typed, choice, url, filename, exc, file_size, success, file, calls>>

PrintImportant ==
  /\ pc = "m45"
  /\ Emit("important")
  /\ pc' = "m49"
  /\ UNCHANGED <<typed, choice, url, filename, exc, file_size, success, file, calls>>

PrintOption1 ==
  /\ pc = "m49"
  /\ Emit("option1")
  /\ pc' = "m56"
  /\ UNCHANGED <<typed, choice, url, filename, exc, file_size, success, file, calls>>

PrintOption2 ==
  /\ pc = "m56"
  /\ Emit("option2")
  /\ pc' = "m59"
  /\ UNCHANGED <<typed, choice, url, filename, exc, file_size, success, file, calls>>

\* choice = input("Download MediaPipe model? (y/n): ").lower()
ReadChoice ==
  /\ pc = "m59"
  /\ \E line \in Lines :
       /\ typed' = line
       /\ choice' = lower(line)
  /\ Emit("input")
  /\ pc' = "m61"
  /\ UNCHANGED <<url, filename, exc, file_size, success, file, calls>>

BranchReprompt ==
  /\ pc = "m61"
  /\ IF choice = <<"y">>
       THEN /\ url' = SelectedSource.url
            /\ filename' = SelectedSource.filename
            /\ pc' = "d28"
       ELSE /\ pc' = IF choice = <<"n">> THEN "m71" ELSE "m59"
            /\ UNCHANGED <<url, filename>>
  /\ UNCHANGED <<typed, choice, exc, file_size, success, file, calls, trace>>

\* if choice == 'y': success = download_model(MODEL_SOURCES[1][...], ...)
Branch ==
  /\ pc = "m61"
  /\ IF choice = <<"y">>
       THEN /\ url' = SelectedSource.url
            /\ filename' = SelectedSource.filename
            /\ pc' = "d28"
       ELSE /\ pc' = "m71"
            /\ UNCHANGED <<url, filename>>
  /\ UNCHANGED <<typed, choice, exc, file_size, success, file, calls, trace>>

CheckSuccessAlways ==
  /\ pc = "m66"
  /\ Emit("success_block")
  /\ pc' = "m71"
  /\ UNCHANGED <<typed, choice, url, filename, exc, file_size, success, file, calls>>

CheckSuccessInverted ==
  /\ pc = "m66"
  /\ IF success # "True"
       THEN Emit("success_block")
       ELSE UNCHANGED trace
  /\ pc' = "m71"
  /\ UNCHANGED <<typed, choice, url, filename, exc, file_size, success, file, calls>>

\* if success: print the "Model downloaded!" block
CheckSuccess ==
  /\ pc = "m66"
  /\ IF success = "True"
       THEN Emit("success_block")
       ELSE UNCHANGED trace
  /\ pc' = "m71"
  /\ UNCHANGED <<typed, choice, url, filename, exc, file_size, success, file, calls>>

PrintOption3 ==
  /\ pc = "m71"
  /\ Emit("option3")
  /\ pc' = "m78"
  /\ UNCHANGED <<typed, choice, url, filename, exc, file_size, success, file, calls>>

PrintFinal ==
  /\ pc = "m78"
  /\ Emit("final")
  /\ pc' = "done"
  /\ UNCHANGED <<typed, choice, url, filename, exc, file_size, success, file, calls>>

main ==
  \/ PrintBanner
  \/ PrintImportant
  \/ PrintOption1
  \/ PrintOption2
  \/ ReadChoice
  \/ Branch
  \/ CheckSuccess
  \/ PrintOption3
  \/ PrintFinal

\* -------------------------------------------------------- download_model
\* print("Downloading ..."); print("From: ...")
Announce ==
  /\ pc = "d28"
  /\ Emit("announce")
  /\ pc' = "d32"
  /\ UNCHANGED <<typed, choice, url, filename, exc, file_size, success, file, calls>>

\* urllib.request.urlretrieve(url, filename): the URL is opened, then the
\* destination is opened for writing (truncating it), then the body is
\* copied; a short body raises ContentTooShortError and leaves what was
\* written.
Urlretrieve ==
  /\ pc = "d32"
  /\ calls' = Append(calls, [url |-> url, filename |-> filename])
  /\ \/ /\ exc' \in {"URLError", "OSError"}
        /\ file' = file
        /\ trace' = trace \o <<"urlretrieve", "raise">>
        /\ pc' = "d36"
     \/ \E k \in 0..(RemoteMiB - 1) :
          /\ exc' = "ContentTooShortError"
          /\ file' = k * MiB
          /\ trace' = trace \o <<"urlretrieve", "raise">>
          /\ pc' = "d36"
     \/ /\ exc' = "none"
        /\ file' = RemoteMiB * MiB
        /\ trace' = Append(trace, "urlretrieve")
        /\ pc' = "d33"
  /\ UNCHANGED <<typed, choice, url, filename, file_size, success>>

\* file_size = os.path.getsize(filename) / (1024 * 1024)
Getsize ==
  /\ pc = "d33"
  /\ \/ /\ file_size' = file \div MiB
        /\ exc' = "none"
        /\ trace' = Append(trace, "getsize")
        /\ pc' = "d34"
     \/ /\ exc' = "OSError"
        /\ file_size' = file_size
        /\ trace' = trace \o <<"getsize", "raise">>
        /\ pc' = "d36"
  /\ UNCHANGED <<typed, choice, url, filename, success, file, calls>>

\* print("Downloaded successfully ..."); return True
PrintSuccess ==
  /\ pc = "d34"
  /\ Emit("success_line")
  /\ success' = "True"
  /\ pc' = "m66"
  /\ UNCHANGED <<typed, choice, url, filename, exc, file_size, file, calls>>

ExceptRetry ==
  /\ pc = "d36"
  /\ IF Catches(exc)
       THEN /\ Emit("fail_line")
            /\ exc' = "none"
            /\ IF Len(calls) < 2
                 THEN pc' = "d32" /\ success' = success
                 ELSE pc' = "m66" /\ success' = "False"
       ELSE /\ pc' = "crashed"
            /\ UNCHANGED <<trace, success, exc>>
  /\ UNCHANGED <<typed, choice, url, filename, file_size, file, calls>>

ExceptCleanup ==
  /\ pc = "d36"
  /\ IF Catches(exc)
       THEN /\ Emit("fail_line")
            /\ success' = "False"
            /\ exc' = "none"
            /\ file' = Absent
            /\ pc' = "m66"
       ELSE /\ pc' = "crashed"
            /\ UNCHANGED <<trace, success, exc, file>>
  /\ UNCHANGED <<typed, choice, url, filename, file_size, calls>>

ExceptReturnsTrue ==
  /\ pc = "d36"
  /\ IF Catches(exc)
       THEN /\ Emit("fail_line")
            /\ success' = "True"
            /\ exc' = "none"
            /\ pc' = "m66"
       ELSE /\ pc' = "crashed"
            /\ UNCHANGED <<trace, success, exc>>
  /\ UNCHANGED <<typed, choice, url, filename, file_size, file, calls>>

\* except Exception as e: print("Failed: ..."); return False
\* an exception the clause does not catch leaves download_model and main
Except ==
  /\ pc = "d36"
  /\ IF Catches(exc)
       THEN /\ Emit("fail_line")
            /\ success' = "False"
            /\ exc' = "none"
            /\ pc' = "m66"
       ELSE /\ pc' = "crashed"
            /\ UNCHANGED <<trace, success, exc>>
  /\ UNCHANGED <<typed, choice, url, filename, file_size, file, calls>>

download_model ==
  \/ Announce
  \/ Urlretrieve
  \/ Getsize
  \/ PrintSuccess
  \/ Except

Next == main \/ download_model

Spec == Init /\ [][Next]_vars

\* a sequential script: the statement at pc is eventually executed
FairSpec == Spec /\ WF_vars(Next)

\* ------------------------------------------------------------ properties
Has(e) == \E i \in 1..Len(trace) : trace[i] = e

Count(e) == Cardinality({i \in 1..Len(trace) : trace[i] = e})

\* position of the first e in the trace, 0 when there is none
Index(e) ==
  IF Has(e) THEN CHOOSE i \in 1..Len(trace) :
                   trace[i] = e /\ \A j \in 1..(i - 1) : trace[j] # e
            ELSE 0

Returned == {"m66", "m71", "m78", "done"}

InDownload == {"d28", "d32", "d33", "d34", "d36"}

SecondCall ==
  [ url      |-> MODEL_SOURCES[2].url,
    filename |-> "face_landmarker.task" ]

\* C1: when the prompt is answered with "y", exactly one network call is
\* made, to the URL of the second source descriptor, with that descriptor's
\* filename face_landmarker.task as destination.
C1_OneCallToSecondSource ==
  (Has("input") /\ typed = <<"y">>) =>
     /\ Len(calls) <= 1
     /\ \A i \in 1..Len(calls) : calls[i] = SecondCall
     /\ pc \in Returned \cup {"crashed"} => Len(calls) = 1

C1_Witness ==
  /\ pc = "done"
  /\ typed = <<"y">>
  /\ calls = <<SecondCall>>

\* C2 as stated: whenever the typed line is anything other than "y" (other
\* case included), no network call is made.
C2_Original ==
  (Has("input") /\ typed # <<"y">>) => calls = <<>>

\* C2 amended: whenever the typed line is neither "y" nor "Y" (every other
\* line, surrounding whitespace and the empty line included), no network
\* call is made and download_model is never entered.
C2_NoCallUnlessLowersToY ==
  (Has("input") /\ typed \notin {<<"y">>, <<"Y">>}) =>
     /\ calls = <<>>
     /\ pc \notin InDownload
     /\ ~Has("announce")

C2_Witness ==
  /\ pc = "done"
  /\ typed = <<" ", "y">>
  /\ calls = <<>>

FailureReportedThenRest ==
  /\ pc = "done"
  /\ Index("raise") < Index("fail_line")
  /\ Index("fail_line") < Index("option3")
  /\ Index("option3") < Index("final")
  /\ Index("final") = Len(trace)

\* C3: when the attempted download fails, main never crashes, and the run
\* goes on to print the failure line, then the Option 3 section and the
\* final banner, and terminates normally.
C3_FailureThenRest ==
  /\ [](pc # "crashed")
  /\ [](Has("raise") /\ pc \in Returned => Has("fail_line"))
  /\ (Has("raise") ~> FailureReportedThenRest)

C3_Witness ==
  /\ pc = "done"
  /\ Has("raise")
  /\ Has("fail_line")
  /\ Has("final")

\* C4: download_model never propagates a failure: every call returns a
\* boolean; a failure in the transfer or in reading the size is reported and
\* gives False; True is returned only when both the transfer and the reading
\* of the file size completed.
C4_ReturnsBoolean ==
  /\ pc # "crashed"
  /\ success \in {"unset", "True", "False"}
  /\ (Has("announce") /\ pc \in Returned) =>
        /\ success \in {"True", "False"}
        /\ success = "False" <=> Has("raise")
        /\ Has("raise") => Has("fail_line")
        /\ success = "True" =>
              /\ Has("urlretrieve") /\ Has("getsize")
              /\ file = RemoteMiB * MiB
              /\ file_size = RemoteMiB

C4_Witness ==
  /\ pc = "m66"
  /\ success = "False"
  /\ Has("getsize")
  /\ trace[Len(trace)] = "fail_line"

\* C5: no retries: at most one transfer attempt in any run, and nothing is
\* attempted after a failed attempt.
C5_NoRetry ==
  /\ Len(calls) <= 1
  /\ Count("urlretrieve") <= 1
  /\ \A i, j \in 1..Len(trace) :
        (trace[i] = "raise" /\ i < j) => trace[j] # "urlretrieve"

C5_Witness ==
  /\ pc = "done"
  /\ Has("fail_line")
  /\ Len(calls) = 1

\* C6 as stated: after download_model returned False, main prints a
\* follow-up message about the failure before it continues with the rest
\* (the Option 3 section), so something is printed between the failure
\* line of download_model and the Option 3 section.
C6_Original ==
  (pc = "done" /\ success = "False") =>
     Index("option3") > Index("fail_line") + 1

\* C6 amended: after download_model returned False, main prints no message
\* of its own about the failure; the only failure message is the line
\* printed by download_model, and main continues directly with the Option 3
\* section and the final banner.
C6_NoFollowUpThenRest ==
  (success = "False" /\ pc \in {"m71", "m78", "done"}) =>
     /\ Has("fail_line")
     /\ ~Has("success_block")
     /\ SubSeq(trace, Index("fail_line") + 1, Len(trace)) =
          CASE pc = "m71"  -> <<>>
            [] pc = "m78"  -> <<"option3">>
            [] pc = "done" -> <<"option3", "final">>

C6_Witness ==
  /\ pc = "done"
  /\ success = "False"
  /\ trace[Len(trace) - 2] = "fail_line"

\* C7 as stated: the sources are tried in list order, so an attempt on the
\* second source (face_landmarker.task) is preceded by an attempt on the
\* first source (mobilefacenet_checkpoint.data).
C7_TriedInListOrder ==
  \A i \in 1..Len(calls) :
     calls[i].filename = "face_landmarker.task" =>
        \E j \in 1..(i - 1) : calls[j].filename = "mobilefacenet_checkpoint.data"

Phase(e) ==
  CASE e = "banner"    -> 1
    [] e = "important" -> 2
    [] e = "option1"   -> 3
    [] e = "option2"   -> 4
    [] e = "input"     -> 5
    [] e = "option3"   -> 7
    [] e = "final"     -> 8
    [] OTHER           -> 6

FixedEvents ==
  {"banner", "important", "option1", "option2", "input", "option3", "final"}

\* C8: every run follows one fixed order: banner and Option 1/Option 2
\* text, then one read of the input, then the download call if any, then
\* the Option 3 text and the final banner; the input is read at most once
\* (exactly once in a finished run) and no download call happens before the
\* input is read or after the Option 3 text starts.
C8_FixedOrder ==
  /\ \A i, j \in 1..Len(trace) : i < j => Phase(trace[i]) <= Phase(trace[j])
  /\ \A e \in FixedEvents : Count(e) <= 1
  /\ \A i \in 1..Len(trace) :
        Phase(trace[i]) # 6 => \A q \in 1..(Phase(trace[i]) - 1) :
                                   q # 6 => \E j \in 1..(i - 1) : Phase(trace[j]) = q
  /\ Has("urlretrieve") => Index("input") < Index("urlretrieve")
  /\ (Has("urlretrieve") /\ Has("option3")) =>
        \A i \in 1..Len(trace) : trace[i] = "urlretrieve" => i < Index("option3")
  /\ pc = "done" => \A e \in FixedEvents : Count(e) = 1

C8_Witness ==
  /\ pc = "done"
  /\ Index("input") = 5
  /\ Index("urlretrieve") = 7
  /\ Has("success_block")
  /\ Index("option3") = Len(trace) - 1

\* C9: no partial-file cleanup: no step of download_model or main other
\* than the transfer itself changes the destination file, so what a failed
\* transfer left there is still there when the run ends.
C9_NoCleanup ==
  [][pc # "d32" => file' = file]_vars

C9_Witness ==
  /\ pc = "done"
  /\ Has("raise")
  /\ file > 0
  /\ file < RemoteMiB * MiB

\* C10: the success block is printed if and only if a download was
\* attempted and download_model returned True; never when the download was
\* skipped or failed; and download_model never prints both its success line
\* and its failure line for one call.
C10_SuccessBlockIff ==
  /\ Has("success_block") <=>
        (pc \in {"m71", "m78", "done"} /\ Len(calls) = 1 /\ success = "True")
  /\ Has("success_block") => (Has("success_line") /\ ~Has("raise"))
  /\ Count("success_block") <= 1
  /\ ~(Has("success_line") /\ Has("fail_line"))

C10_Witness ==
  /\ pc = "done"
  /\ Has("success_block")
  /\ success = "True"

====
